---- MODULE Spec2Model ----
(***************************************************************************)
(* WebMonitor (src/src/index.js): the tabbed browser shell.                *)
(*                                                                         *)
(* Text is modelled as sequences of one-character strings, so that the     *)
(* two regular expressions of _isValidUrl and encodeURIComponent are       *)
(* computed character by character.  A URL stored in the shell state is    *)
(* the TLA+ string obtained by joining the characters.                     *)
(*                                                                         *)
(* Spec         the public methods, the Ctrl+W handler and did-navigate    *)
(* SpecResolve  navigate on a fresh shell, over a family of address texts  *)
(* SpecEvents   the tab methods with the load and title events             *)
(***************************************************************************)
EXTENDS Integers, Sequences, FiniteSets, TLC

(***************************************************************************)
(* Bounds of the model.                                                    *)
(***************************************************************************)
\* newTab is called at most MaxCounter times on one shell instance
MaxCounter == 3

(***************************************************************************)
(* Characters.                                                             *)
(***************************************************************************)
LowerChars == {"a","b","c","d","e","f","g","h","i","j","k","l","m",
               "n","o","p","q","r","s","t","u","v","w","x","y","z"}
UpperChars == {"A","B","C","D","E","F","G","H","I","J","K","L","M",
               "N","O","P","Q","R","S","T","U","V","W","X","Y","Z"}
DigitChars == {"0","1","2","3","4","5","6","7","8","9"}
\* [a-zA-Z]
LetterChars == LowerChars \cup UpperChars
\* [a-zA-Z0-9-]
LabelChars == LetterChars \cup DigitChars \cup {"-"}

\* the printable ASCII characters in code order, the first one being 0x20
\* (the double quote, the backslash and the grave accent are held by name)
AsciiFirst == 32
AsciiPrintable ==
  << " ", "!", "<quot>", "#", "$", "%", "&", "'", "(", ")", "*", "+", ",", "-", ".", "/",
     "0", "1", "2", "3", "4", "5", "6", "7", "8", "9", ":", ";", "<", "=", ">", "?",
     "@", "A", "B", "C", "D", "E", "F", "G", "H", "I", "J", "K", "L", "M", "N", "O",
     "P", "Q", "R", "S", "T", "U", "V", "W", "X", "Y", "Z", "[", "<bsl>", "]", "^", "_",
     "<grave>", "a", "b", "c", "d", "e", "f", "g", "h", "i", "j", "k", "l", "m", "n", "o",
     "p", "q", "r", "s", "t", "u", "v", "w", "x", "y", "z", "{", "|", "}", "~" >>
HexDigits == << "0","1","2","3","4","5","6","7","8","9","A","B","C","D","E","F" >>
HexBase == 16

CharCode(c) ==
  AsciiFirst - 1 + CHOOSE i \in 1..Len(AsciiPrintable) : AsciiPrintable[i] = c

\* the characters encodeURIComponent leaves alone: A-Z a-z 0-9 - _ . ! ~ * apostrophe ( )
UriUnreserved ==
  LetterChars \cup DigitChars \cup {"-", "_", ".", "!", "~", "*", "'", "(", ")"}

\* one ASCII character as encodeURIComponent writes it
EncodeChar(c) ==
  IF c \in UriUnreserved THEN << c >>
  ELSE << "%", HexDigits[(CharCode(c) \div HexBase) + 1],
               HexDigits[(CharCode(c) % HexBase) + 1] >>

RECURSIVE encodeURIComponent(_)
encodeURIComponent(s) ==
  IF s = << >> THEN << >>
  ELSE EncodeChar(Head(s)) \o encodeURIComponent(Tail(s))

\* the characters of a string, joined into one TLA+ string
RECURSIVE Join(_)
Join(s) == IF s = << >> THEN "" ELSE Head(s) \o Join(Tail(s))

Drop(s, n) == SubSeq(s, n + 1, Len(s))
StartsWith(s, p) == Len(s) >= Len(p) /\ SubSeq(s, 1, Len(p)) = p

ChHttp == << "h","t","t","p",":","/","/" >>
ChHttps == << "h","t","t","p","s",":","/","/" >>
ChLocalhost == << "l","o","c","a","l","h","o","s","t" >>
ChLoopback == << "1","2","7",".","0",".","0",".","1" >>
ChSearch == << "h","t","t","p","s",":","/","/","w","w","w",".","g","o","o","g","l","e",
               ".","c","o","m","/","s","e","a","r","c","h","?","q","=" >>

\* /^https?:\/\// : the input starts with an explicit scheme
HasScheme(s) == StartsWith(s, ChHttp) \/ StartsWith(s, ChHttps)

\* the ways (https?:\/\/)? can match at the start: the remainders it leaves
AfterOptionalScheme(s) ==
  {s} \cup (IF StartsWith(s, ChHttp) THEN {Drop(s, Len(ChHttp))} ELSE {})
      \cup (IF StartsWith(s, ChHttps) THEN {Drop(s, Len(ChHttps))} ELSE {})

\* (\/.*)?$ : nothing, or a slash followed by anything but a line break
IsOptionalPath(r) == r = << >> \/ (Head(r) = "/" /\ \A i \in 1..Len(r) : r[i] # "\n")

\* ([a-zA-Z0-9-]+\.)+ matches all of r: dot-terminated non-empty labels
IsLabels(r) ==
  /\ Len(r) >= 2
  /\ r[Len(r)] = "."
  /\ r[1] \in LabelChars
  /\ \A i \in 1..Len(r) : r[i] \in LabelChars \cup {"."}
  /\ \A i \in 1..(Len(r) - 1) : ~(r[i] = "." /\ r[i + 1] = ".")

\* [a-zA-Z]{2,} matches all of r
TldMin == 2
IsTld(r) == Len(r) >= TldMin /\ \A i \in 1..Len(r) : r[i] \in LetterChars

\* (:\d+)? matches all of r
IsOptionalPort(r) ==
  r = << >> \/ (Len(r) >= 2 /\ r[1] = ":" /\ \A i \in 2..Len(r) : r[i] \in DigitChars)

\* /^(https?:\/\/)?([a-zA-Z0-9-]+\.)+[a-zA-Z]{2,}(\/.*)?$/
urlPattern(s) ==
  \E r \in AfterOptionalScheme(s) :
    \E k \in 0..Len(r) : \E m \in k..Len(r) :
      /\ IsLabels(SubSeq(r, 1, k))
      /\ IsTld(SubSeq(r, k + 1, m))
      /\ IsOptionalPath(Drop(r, m))

\* /^(https?:\/\/)?(localhost|127\.0\.0\.1)(:\d+)?(\/.*)?$/
localhostPattern(s) ==
  \E r \in AfterOptionalScheme(s) :
    \E h \in {ChLocalhost, ChLoopback} :
      /\ StartsWith(r, h)
      /\ \E m \in Len(h)..Len(r) :
           /\ IsOptionalPort(SubSeq(r, Len(h) + 1, m))
           /\ IsOptionalPath(Drop(r, m))

\* _isValidUrl testing the domain pattern only
isValidUrl_domainOnly(s) == urlPattern(s)

\* _isValidUrl(input), lines 153-158
isValidUrl(s) == urlPattern(s) \/ localhostPattern(s)

\* navigate, lines 166-171: the URL a non-empty input resolves to
ResolveChars(s) ==
  IF ~isValidUrl(s) THEN ChSearch \o encodeURIComponent(s)
  ELSE IF ~HasScheme(s) THEN ChHttps \o s
  ELSE s

Resolve(s) == Join(ResolveChars(s))

(***************************************************************************)
(* Inputs.                                                                 *)
(***************************************************************************)
NULL == -1

ChOpenai == << "o","p","e","n","a","i",".","c","o","m" >>
\* the texts handed to navigate: the falsy one and a bare domain
NavInputs == { << >>, ChOpenai }
(***************************************************************************)
(* Address-bar texts, built from a scheme, a host, a port and a path.  Each *)
(* part carries its characters, its text, its percent-encoded text and its *)
(* kind.                                                                   *)
(***************************************************************************)
\* no scheme, http://, https://, and a scheme that is neither
Schemes ==
  { [ chars |-> << >>,
      text |-> "", enc |-> "", kind |-> "none" ],
    [ chars |-> << "h", "t", "t", "p", ":", "/", "/" >>,
      text |-> "http://", enc |-> "http%3A%2F%2F", kind |-> "http" ],
    [ chars |-> << "h", "t", "t", "p", "s", ":", "/", "/" >>,
      text |-> "https://", enc |-> "https%3A%2F%2F", kind |-> "http" ],
    [ chars |-> << "f", "t", "p", ":", "/", "/" >>,
      text |-> "ftp://", enc |-> "ftp%3A%2F%2F", kind |-> "other" ] }
\* domains with a TLD, the two local hosts, and texts that are neither
Hosts ==
  { [ chars |-> << "o", "p", "e", "n", "a", "i", ".", "c", "o", "m" >>,
      text |-> "openai.com", enc |-> "openai.com", kind |-> "domain" ],
    [ chars |-> << "a", ".", "b", "-", "c", ".", "i", "o" >>,
      text |-> "a.b-c.io", enc |-> "a.b-c.io", kind |-> "domain" ],
    [ chars |-> << "l", "o", "c", "a", "l", "h", "o", "s", "t" >>,
      text |-> "localhost", enc |-> "localhost", kind |-> "local" ],
    [ chars |-> << "1", "2", "7", ".", "0", ".", "0", ".", "1" >>,
      text |-> "127.0.0.1", enc |-> "127.0.0.1", kind |-> "local" ],
    [ chars |-> << "h", "e", "l", "l", "o" >>,
      text |-> "hello", enc |-> "hello", kind |-> "other" ],
    [ chars |-> << "h", "e", "l", "l", "o", " ", "w", "o", "r", "l", "d" >>,
      text |-> "hello world", enc |-> "hello%20world", kind |-> "other" ],
    [ chars |-> << "x", ".", "c" >>,
      text |-> "x.c", enc |-> "x.c", kind |-> "other" ],
    [ chars |-> << "m", "y", "_", "s", "i", "t", "e", ".", "c", "o", "m" >>,
      text |-> "my_site.com", enc |-> "my_site.com", kind |-> "other" ] }
\* no port, a port, and a colon without digits
Ports ==
  { [ chars |-> << >>,
      text |-> "", enc |-> "", kind |-> "none" ],
    [ chars |-> << ":", "3", "0", "0", "0" >>,
      text |-> ":3000", enc |-> "%3A3000", kind |-> "digits" ],
    [ chars |-> << ":" >>,
      text |-> ":", enc |-> "%3A", kind |-> "other" ] }
\* no path, paths that start with a slash, and a query without a path
Paths ==
  { [ chars |-> << >>,
      text |-> "", enc |-> "", kind |-> "none" ],
    [ chars |-> << "/" >>,
      text |-> "/", enc |-> "%2F", kind |-> "slash" ],
    [ chars |-> << "/", "a", " ", "b", "?", "q", "=", "1" >>,
      text |-> "/a b?q=1", enc |-> "%2Fa%20b%3Fq%3D1", kind |-> "slash" ],
    [ chars |-> << "?", "q" >>,
      text |-> "?q", enc |-> "%3Fq", kind |-> "other" ] }

AddressChars(sch, host, port, path) == sch.chars \o host.chars \o port.chars \o path.chars
AddressInputs ==
  { AddressChars(sch, host, port, path) :
      sch \in Schemes, host \in Hosts, port \in Ports, path \in Paths }

\* the url arguments of newTab and options.startUrl
TabUrls == { "", "https://openai.com" }
\* the addresses a surface reports in did-navigate (a redirect, a followed link)
EventUrls == { "https://example.org/" }
\* the titles a surface reports in page-title-updated
EventTitles == { "", "Docs" }
\* the id arguments of switchTab and closeTab: 0 is never a tab's id
IdArgs == 0..MaxCounter
\* the ids a surface can have
SurfaceIds == 1..MaxCounter

(***************************************************************************)
(* State.                                                                  *)
(***************************************************************************)
VARIABLES
  options,      \* this.options: whether the configured container resolves, and
                \* whether the observer callbacks (onNavigate ... onError) are set
  tabs,         \* this.tabs: sequence of [id, url, title]
  activeTabId,  \* this.activeTabId
  tabCounter,   \* this.tabCounter
  initialized,  \* this.initialized
  mounted,      \* the shell markup of _getHTML is in the document
  listeners,    \* how many times _bindEvents installed the input handlers
  webviews,     \* the webview elements under #wm-content: id -> [src, active]
  urlInput,     \* #wm-url-input .value
  placeholder,  \* #wm-placeholder .style.display
  status,       \* #wm-status-dot class and #wm-status-text text
  last,         \* the call or event handled last, its result and its exception,
                \* and the active id and the tab ids it found
  issued,       \* the ids newTab gave to the tabs it appended, in order
  calls,        \* number of newTab calls and of closeTab calls that found a tab
  held,         \* the array a caller got from getTabs(): the tab objects in it, by id
  net           \* the session's onHeadersReceived listener, the response it handled
                \* last and the calls it made to the continuation callback

vars == << options, tabs, activeTabId, tabCounter, initialized, mounted, listeners,
           webviews, urlInput, placeholder, status, last, issued, calls, held, net >>

\* no observer callback was invoked
NoCallback == [ name |-> "none", tab |-> NULL ]

\* the shell and its document as one value
Shell ==
  [ tabs |-> tabs, activeTabId |-> activeTabId, tabCounter |-> tabCounter,
    initialized |-> initialized, mounted |-> mounted, listeners |-> listeners,
    webviews |-> webviews, urlInput |-> urlInput, placeholder |-> placeholder,
    status |-> status, err |-> "none", ret |-> NULL,
    cb |-> NoCallback ]

TabIds(ts) == { ts[i].id : i \in 1..Len(ts) }
\* this.tabs.findIndex(t => t.id === id), counted from 1; 0 when there is none
FindIndex(ts, id) ==
  IF id \in TabIds(ts) THEN CHOOSE i \in 1..Len(ts) :
                              ts[i].id = id /\ \A j \in 1..(i - 1) : ts[j].id # id
  ELSE 0
\* (this.tabs.find(t => t.id === id))?.url || ''
UrlOf(ts, id) == IF FindIndex(ts, id) = 0 THEN "" ELSE ts[FindIndex(ts, id)].url
RemoveAt(ts, i) == SubSeq(ts, 1, i - 1) \o SubSeq(ts, i + 1, Len(ts))
Min(a, b) == IF a <= b THEN a ELSE b

StatusReady == [ dot |-> "", text |-> "Ready" ]

(***************************************************************************)
(* The methods, as functions of the shell value.                           *)
(***************************************************************************)
\* switchTab(id), lines 105-122
switchTab(sh, id) ==
  [ sh EXCEPT
      !.activeTabId = id,
      !.webviews = [ w \in DOMAIN sh.webviews |->
                       [ sh.webviews[w] EXCEPT !.active = (w = id) ] ],
      !.urlInput = IF sh.mounted THEN UrlOf(sh.tabs, id) ELSE @,
      !.placeholder = IF sh.mounted
                      THEN (IF UrlOf(sh.tabs, id) # "" THEN "none" ELSE "flex")
                      ELSE @ ]

\* newTab taking the id from the number of open tabs instead of the counter
newTab_idFromLength(sh, url) ==
  LET id == Len(sh.tabs) + 1
      pushed == [ sh EXCEPT !.tabCounter = @ + 1,
                            !.tabs = Append(@, [ id |-> id, url |-> url,
                                                 title |-> "New Tab" ]) ]
  IN IF ~sh.mounted THEN [ pushed EXCEPT !.err = "TypeError" ]
     ELSE [ switchTab([ pushed EXCEPT
                          !.webviews = [ w \in DOMAIN @ \cup {id} |->
                                           IF w = id THEN [ src |-> url, active |-> FALSE ]
                                           ELSE @[w] ] ],
                      id)
            EXCEPT !.ret = id ]

\* newTab without the switchTab call of line 97
newTab_noSwitch(sh, url) ==
  LET id == sh.tabCounter + 1
      pushed == [ sh EXCEPT !.tabCounter = id,
                            !.tabs = Append(@, [ id |-> id, url |-> url,
                                                 title |-> "New Tab" ]) ]
  IN IF ~sh.mounted THEN [ pushed EXCEPT !.err = "TypeError" ]
     ELSE [ pushed EXCEPT
              !.webviews = [ w \in DOMAIN @ \cup {id} |->
                               IF w = id THEN [ src |-> url, active |-> FALSE ]
                               ELSE @[w] ],
              !.ret = id ]

\* newTab(url), lines 81-100; without the shell markup #wm-content is null and
\* line 94 throws a TypeError after the tab was pushed
newTab(sh, url) ==
  LET id == sh.tabCounter + 1
      pushed == [ sh EXCEPT !.tabCounter = id,
                            !.tabs = Append(@, [ id |-> id, url |-> url,
                                                 title |-> "New Tab" ]) ]
  IN IF ~sh.mounted THEN [ pushed EXCEPT !.err = "TypeError" ]
     ELSE [ switchTab([ pushed EXCEPT
                          !.webviews = [ w \in DOMAIN @ \cup {id} |->
                                           IF w = id THEN [ src |-> url, active |-> FALSE ]
                                           ELSE @[w] ] ],
                      id)
            EXCEPT !.ret = id ]

\* closeTab activating the left neighbour: newIndex = index - 1, at least 0
closeTab_leftNeighbour(sh, id) ==
  LET index == FindIndex(sh.tabs, id)
      removed == [ sh EXCEPT
                     !.webviews = [ w \in DOMAIN @ \ {id} |-> @[w] ],
                     !.tabs = RemoveAt(@, index) ]
  IN IF index = 0 THEN sh
     ELSE IF Len(removed.tabs) = 0
       THEN [ removed EXCEPT !.activeTabId = NULL,
                             !.urlInput = IF sh.mounted THEN "" ELSE @,
                             !.placeholder = IF sh.mounted THEN "flex" ELSE @ ]
     ELSE IF sh.activeTabId = id
       THEN switchTab(removed, removed.tabs[IF index > 1 THEN index - 1 ELSE 1].id)
     ELSE removed

\* closeTab resetting the display only when the tab it removed was the active one
closeTab_resetIfActive(sh, id) ==
  LET index == FindIndex(sh.tabs, id)
      removed == [ sh EXCEPT
                     !.webviews = [ w \in DOMAIN @ \ {id} |-> @[w] ],
                     !.tabs = RemoveAt(@, index) ]
  IN IF index = 0 THEN sh
     ELSE IF sh.activeTabId # id THEN removed
     ELSE IF Len(removed.tabs) = 0
       THEN [ removed EXCEPT !.activeTabId = NULL,
                             !.urlInput = IF sh.mounted THEN "" ELSE @,
                             !.placeholder = IF sh.mounted THEN "flex" ELSE @ ]
     ELSE switchTab(removed, removed.tabs[Min(index, Len(removed.tabs))].id)

\* closeTab with splice(index): every tab from index on leaves the collection
closeTab_spliceToEnd(sh, id) ==
  LET index == FindIndex(sh.tabs, id)
      removed == [ sh EXCEPT
                     !.webviews = [ w \in DOMAIN @ \ {id} |-> @[w] ],
                     !.tabs = SubSeq(@, 1, index - 1) ]
  IN IF index = 0 THEN sh
     ELSE IF Len(removed.tabs) = 0
       THEN [ removed EXCEPT !.activeTabId = NULL,
                             !.urlInput = IF sh.mounted THEN "" ELSE @,
                             !.placeholder = IF sh.mounted THEN "flex" ELSE @ ]
     ELSE IF sh.activeTabId = id
       THEN switchTab(removed, removed.tabs[Min(index, Len(removed.tabs))].id)
     ELSE removed

\* closeTab without the early return: splice(-1, 1) removes the last tab
closeTab_noMissGuard(sh, id) ==
  LET index == IF FindIndex(sh.tabs, id) = 0 THEN Len(sh.tabs) ELSE FindIndex(sh.tabs, id)
      removed == [ sh EXCEPT
                     !.webviews = [ w \in DOMAIN @ \ {id} |-> @[w] ],
                     !.tabs = RemoveAt(@, index) ]
  IN IF index = 0 THEN sh
     ELSE IF Len(removed.tabs) = 0
       THEN [ removed EXCEPT !.activeTabId = NULL,
                             !.urlInput = IF sh.mounted THEN "" ELSE @,
                             !.placeholder = IF sh.mounted THEN "flex" ELSE @ ]
     ELSE IF sh.activeTabId = id
       THEN switchTab(removed, removed.tabs[Min(index, Len(removed.tabs))].id)
     ELSE removed

\* closeTab without the webview.remove() of line 133
closeTab_keepsWebview(sh, id) ==
  LET index == FindIndex(sh.tabs, id)
      removed == [ sh EXCEPT !.tabs = RemoveAt(@, index) ]
  IN IF index = 0 THEN sh
     ELSE IF Len(removed.tabs) = 0
       THEN [ removed EXCEPT !.activeTabId = NULL,
                             !.urlInput = IF sh.mounted THEN "" ELSE @,
                             !.placeholder = IF sh.mounted THEN "flex" ELSE @ ]
     ELSE IF sh.activeTabId = id
       THEN switchTab(removed, removed.tabs[Min(index, Len(removed.tabs))].id)
     ELSE removed

\* closeTab switching to the neighbour whichever tab was closed: without the
\* test of line 141
closeTab_alwaysSwitch(sh, id) ==
  LET index == FindIndex(sh.tabs, id)
      removed == [ sh EXCEPT
                     !.webviews = [ w \in DOMAIN @ \ {id} |-> @[w] ],
                     !.tabs = RemoveAt(@, index) ]
  IN IF index = 0 THEN sh
     ELSE IF Len(removed.tabs) = 0
       THEN [ removed EXCEPT !.activeTabId = NULL,
                             !.urlInput = IF sh.mounted THEN "" ELSE @,
                             !.placeholder = IF sh.mounted THEN "flex" ELSE @ ]
     ELSE switchTab(removed, removed.tabs[Min(index, Len(removed.tabs))].id)

\* closeTab(id), lines 127-148
closeTab(sh, id) ==
  LET index == FindIndex(sh.tabs, id)
      removed == [ sh EXCEPT
                     !.webviews = [ w \in DOMAIN @ \ {id} |-> @[w] ],
                     !.tabs = RemoveAt(@, index) ]
  IN IF index = 0 THEN sh
     ELSE IF Len(removed.tabs) = 0
       THEN [ removed EXCEPT !.activeTabId = NULL,
                             !.urlInput = IF sh.mounted THEN "" ELSE @,
                             !.placeholder = IF sh.mounted THEN "flex" ELSE @ ]
     ELSE IF sh.activeTabId = id
       THEN switchTab(removed, removed.tabs[Min(index, Len(removed.tabs))].id)
     ELSE removed

\* navigate without the early return on a falsy input
navigate_noEmptyGuard(sh, input) ==
  LET url == Resolve(input)
      opened == newTab(sh, url)
      index == FindIndex(sh.tabs, sh.activeTabId)
      updated ==
        IF index = 0 THEN sh
        ELSE [ sh EXCEPT
                 !.tabs[index].url = url,
                 !.webviews = [ w \in DOMAIN @ |->
                                  IF w = sh.activeTabId THEN [ @[w] EXCEPT !.src = url ]
                                  ELSE @[w] ] ]
      hide(s) == [ s EXCEPT !.placeholder = IF s.mounted THEN "none" ELSE @ ]
  IN IF sh.activeTabId = NULL
       THEN (IF opened.err # "none" THEN opened ELSE [ hide(opened) EXCEPT !.ret = NULL ])
     ELSE hide(updated)

\* navigate(url), lines 163-186, for the characters of a non-empty or empty text
navigate(sh, input) ==
  LET url == Resolve(input)
      opened == newTab(sh, url)
      index == FindIndex(sh.tabs, sh.activeTabId)
      updated ==
        IF index = 0 THEN sh
        ELSE [ sh EXCEPT
                 !.tabs[index].url = url,
                 !.webviews = [ w \in DOMAIN @ |->
                                  IF w = sh.activeTabId THEN [ @[w] EXCEPT !.src = url ]
                                  ELSE @[w] ] ]
      hide(s) == [ s EXCEPT !.placeholder = IF s.mounted THEN "none" ELSE @ ]
  IN IF input = << >> THEN sh
     ELSE IF sh.activeTabId = NULL
       THEN (IF opened.err # "none" THEN opened ELSE [ hide(opened) EXCEPT !.ret = NULL ])
     ELSE hide(updated)

\* getCurrentUrl(), lines 215-218
getCurrentUrl(sh) == UrlOf(sh.tabs, sh.activeTabId)

\* init() without the guard of line 57
init_noInitializedGuard(sh, opts, startUrl) ==
  LET rendered == [ sh EXCEPT !.mounted = TRUE, !.urlInput = "", !.placeholder = "",
                              !.status = StatusReady, !.listeners = @ + 1 ]
  IN IF ~opts.containerFound THEN [ sh EXCEPT !.err = "ContainerNotFound" ]
     ELSE [ newTab(rendered, startUrl) EXCEPT !.initialized = TRUE, !.ret = NULL ]

\* init() that sets this.initialized before it looks for the container
init_flagBeforeContainer(sh, opts, startUrl) ==
  LET rendered == [ sh EXCEPT !.mounted = TRUE, !.urlInput = "", !.placeholder = "",
                              !.status = StatusReady, !.listeners = @ + 1 ]
  IN IF sh.initialized THEN sh
     ELSE IF ~opts.containerFound
          THEN [ sh EXCEPT !.err = "ContainerNotFound", !.initialized = TRUE ]
     ELSE [ newTab(rendered, startUrl) EXCEPT !.initialized = TRUE, !.ret = NULL ]

\* init(), lines 56-76; startUrl is this.options.startUrl, read here only
init(sh, opts, startUrl) ==
  LET rendered == [ sh EXCEPT !.mounted = TRUE, !.urlInput = "", !.placeholder = "",
                              !.status = StatusReady, !.listeners = @ + 1 ]
  IN IF sh.initialized THEN sh
     ELSE IF ~opts.containerFound THEN [ sh EXCEPT !.err = "ContainerNotFound" ]
     ELSE [ newTab(rendered, startUrl) EXCEPT !.initialized = TRUE, !.ret = NULL ]

(***************************************************************************)
(* Actions: one per public method, input handler and surface event.        *)
(***************************************************************************)
\* the error code of a load that was superseded by another navigation
ErrAborted == -3
\* the codes a failed load carries: the superseded one, and -105, a name that
\* does not resolve
FailCodes == { ErrAborted, -105 }
FailDescription == "ERR_NAME_NOT_RESOLVED"

NoCall == [ op |-> "new", id |-> NULL, input |-> "", ret |-> NULL, err |-> "none",
            cb |-> NoCallback, wasActive |-> NULL, wasIds |-> << >> ]

\* the shell value sh becomes the state; the call is recorded with its outcome,
\* and counted when it called newTab (created) or closed a tab (closed).  The
\* first conjunct bounds the model: at most MaxCounter tabs are ever created.
Commit(sh, op, id, input, created, closed) ==
  /\ sh.tabCounter <= MaxCounter
  /\ tabs' = sh.tabs
  /\ activeTabId' = sh.activeTabId
  /\ tabCounter' = sh.tabCounter
  /\ initialized' = sh.initialized
  /\ mounted' = sh.mounted
  /\ listeners' = sh.listeners
  /\ webviews' = sh.webviews
  /\ urlInput' = sh.urlInput
  /\ placeholder' = sh.placeholder
  /\ status' = sh.status
  /\ last' = [ op |-> op, id |-> id, input |-> input, ret |-> sh.ret, err |-> sh.err,
                cb |-> sh.cb, wasActive |-> activeTabId,
                wasIds |-> [ i \in 1..Len(tabs) |-> tabs[i].id ] ]
  /\ issued' = IF Len(sh.tabs) > Len(tabs) THEN Append(issued, sh.tabs[Len(sh.tabs)].id)
               ELSE issued
  /\ calls' = [ newTab |-> calls.newTab + (IF created THEN 1 ELSE 0),
                closeHit |-> calls.closeHit + (IF closed THEN 1 ELSE 0) ]
  /\ UNCHANGED << options, held, net >>

InitShell(startUrl) ==
  /\ startUrl \in TabUrls
  /\ Commit(init(Shell, options, startUrl), "init", NULL, startUrl,
            ~initialized /\ options.containerFound, FALSE)

\* newTab(url); also the new-tab button and Ctrl+T, which call newTab()
NewTab(url) ==
  /\ url \in TabUrls
  /\ Commit(newTab(Shell, url), "newTab", NULL, url, TRUE, FALSE)

\* switchTab(id); also a click on a tab of the strip
SwitchTab(id) ==
  /\ id \in IdArgs
  /\ Commit(switchTab(Shell, id), "switchTab", id, "", FALSE, FALSE)

\* closeTab(id); also a click on a tab's close button
CloseTab(id) ==
  /\ id \in IdArgs
  /\ Commit(closeTab(Shell, id), "closeTab", id, "", FALSE, id \in TabIds(tabs))

\* Ctrl+W, line 331: closes the active tab when activeTabId is truthy
CtrlW ==
  /\ listeners > 0
  /\ IF activeTabId # NULL /\ activeTabId # 0
     THEN Commit(closeTab(Shell, activeTabId), "ctrlW", activeTabId, "",
                 FALSE, activeTabId \in TabIds(tabs))
     ELSE Commit(Shell, "ctrlW", activeTabId, "", FALSE, FALSE)

\* navigate(url); also Enter in the address bar and the Go button
Navigate(input) ==
  /\ input \in NavInputs \cup AddressInputs
  /\ Commit(navigate(Shell, input), "navigate", NULL, Join(input),
            input # << >> /\ activeTabId = NULL, FALSE)

\* goBack(), goForward(), reload(), lines 191-210: handed to the active
\* surface, whose history the shell does not mirror; also the three buttons
\* and Ctrl+R
GoBack ==
  /\ TRUE
  /\ Commit(Shell, "goBack", NULL, "", FALSE, FALSE)
GoForward ==
  /\ TRUE
  /\ Commit(Shell, "goForward", NULL, "", FALSE, FALSE)
Reload ==
  /\ TRUE
  /\ Commit(Shell, "reload", NULL, "", FALSE, FALSE)

\* _setStatus(type, text), lines 262-272
setStatus(sh, type, text) ==
  IF sh.mounted
  THEN [ sh EXCEPT !.status = [ dot |-> IF type \in {"loading", "error"} THEN type ELSE "",
                                text |-> text ] ]
  ELSE sh

\* a surface that was given a target loads, and reports what happens
Loading(w) == webviews[w].src # ""

\* if (this.options.onX) this.options.onX(tab, ...): the observer callback
\* the listener of surface w invokes, when one is configured, and the tab the
\* listener closed over, which it hands to the callback
notify(sh, opts, name, w) ==
  IF opts.observers THEN [ sh EXCEPT !.cb = [ name |-> name, tab |-> w ] ] ELSE sh

\* did-start-loading, lines 229-232
didStartLoading(sh, opts, w) ==
  notify(setStatus(sh, "loading", "Loading..."), opts, "onLoadStart", w)

DidStartLoading(w) ==
  /\ w \in DOMAIN webviews
  /\ Loading(w)
  /\ Commit(didStartLoading(Shell, options, w), "did-start-loading", w, "", FALSE, FALSE)

\* did-stop-loading, lines 234-237
didStopLoading(sh, opts, w) ==
  notify(setStatus(sh, "ready", "Ready"), opts, "onLoadEnd", w)

DidStopLoading(w) ==
  /\ w \in DOMAIN webviews
  /\ Loading(w)
  /\ Commit(didStopLoading(Shell, options, w), "did-stop-loading", w, "", FALSE, FALSE)

\* did-fail-load without the test of line 240
didFailLoad_noAbortFilter(sh, opts, w, code) ==
  notify(setStatus(sh, "error", "Error: " \o FailDescription), opts, "onError", w)

\* did-fail-load, lines 239-244
didFailLoad(sh, opts, w, code) ==
  IF code # ErrAborted
  THEN notify(setStatus(sh, "error", "Error: " \o FailDescription), opts, "onError", w)
  ELSE sh

DidFailLoad(w, code) ==
  /\ w \in DOMAIN webviews
  /\ Loading(w)
  /\ Commit(didFailLoad(Shell, options, w, code), "did-fail-load", w,
            IF code = ErrAborted THEN "aborted" ELSE "failed", FALSE, FALSE)

\* the listener writing its tab's field and putting the tab back into the
\* collection when it is not there
setTabField_reinsert(sh, w, field, value) ==
  IF w \in TabIds(sh.tabs)
  THEN [ sh EXCEPT !.tabs = [ i \in 1..Len(@) |->
                                IF @[i].id = w THEN [ @[i] EXCEPT ![field] = value ]
                                ELSE @[i] ] ]
  ELSE [ sh EXCEPT !.tabs = Append(@, [ [ id |-> w, url |-> "", title |-> "New Tab" ]
                                          EXCEPT ![field] = value ]) ]

\* the tab object the listeners of surface w closed over, with one field set;
\* the object of a closed tab is no longer in this.tabs, and ids are not reused
setTabField(sh, w, field, value) ==
  [ sh EXCEPT !.tabs = [ i \in 1..Len(@) |->
                           IF @[i].id = w THEN [ @[i] EXCEPT ![field] = value ]
                           ELSE @[i] ] ]

\* page-title-updated, lines 246-250
TitleUpdated(w, title) ==
  /\ w \in DOMAIN webviews
  /\ Loading(w)
  /\ Commit(notify(setTabField(Shell, w, "title",
                               IF title # "" THEN title ELSE "Untitled"),
                   options, "onTitleChange", w),
            "page-title-updated", w, title, FALSE, FALSE)

\* did-navigate without the test of line 254
didNavigate_noActiveCheck(sh, w, url) ==
  [ setTabField(sh, w, "url", url) EXCEPT !.urlInput = IF sh.mounted THEN url ELSE @ ]

\* did-navigate, lines 252-259
didNavigate(sh, w, url) ==
  [ setTabField(sh, w, "url", url) EXCEPT
      !.urlInput = IF sh.activeTabId = w /\ sh.mounted THEN url ELSE @ ]

DidNavigate(w, url) ==
  /\ w \in DOMAIN webviews
  /\ Loading(w)
  /\ Commit(notify(didNavigate(Shell, w, url), options, "onNavigate", w),
            "did-navigate", w, url, FALSE, FALSE)

\* the surface of a closed tab: webview.remove() of line 133 detached it, its
\* listeners and the tab object they closed over remain, and whether an event
\* that was under way still reaches them is up to the host
Detached(w) ==
  /\ w \in { issued[i] : i \in 1..Len(issued) }
  /\ w \notin TabIds(tabs)
  /\ w \notin DOMAIN webviews

\* the five listeners of lines 229-259, run for an event of a detached surface
LateDidStartLoading(w) ==
  /\ Detached(w)
  /\ Commit(didStartLoading(Shell, options, w), "did-start-loading", w, "", FALSE, FALSE)

LateDidStopLoading(w) ==
  /\ Detached(w)
  /\ Commit(didStopLoading(Shell, options, w), "did-stop-loading", w, "", FALSE, FALSE)

LateDidFailLoad(w, code) ==
  /\ Detached(w)
  /\ Commit(didFailLoad(Shell, options, w, code), "did-fail-load", w,
            IF code = ErrAborted THEN "aborted" ELSE "failed", FALSE, FALSE)

LateTitleUpdated(w, title) ==
  /\ Detached(w)
  /\ Commit(notify(setTabField(Shell, w, "title",
                               IF title # "" THEN title ELSE "Untitled"),
                   options, "onTitleChange", w),
            "page-title-updated", w, title, FALSE, FALSE)

LateDidNavigate(w, url) ==
  /\ Detached(w)
  /\ Commit(notify(didNavigate(Shell, w, url), options, "onNavigate", w),
            "did-navigate", w, url, FALSE, FALSE)

\* the variables of the shell and its document
shellVars == << tabs, activeTabId, tabCounter, initialized, mounted, listeners,
                webviews, urlInput, placeholder, status >>

\* a step of the shell's surroundings, recorded like a call
Record(op, id, input) ==
  last' = [ NoCall EXCEPT !.op = op, !.id = id, !.input = input,
                          !.wasActive = activeTabId,
                          !.wasIds = [ i \in 1..Len(tabs) |-> tabs[i].id ] ]

\* the host page gets the element the container option selects: from now on
\* document.querySelector(this.options.container) of line 59 finds it
ContainerAdded ==
  /\ ~options.containerFound
  /\ options' = [ options EXCEPT !.containerFound = TRUE ]
  /\ Record("container-added", NULL, "")
  /\ UNCHANGED << shellVars, issued, calls, held, net >>

\* getTabs(), lines 223-225: a new array holding the same tab objects, which
\* are named by their ids
getTabs(sh) == [ i \in 1..Len(sh.tabs) |-> sh.tabs[i].id ]

GetTabs ==
  /\ TRUE
  /\ held' = getTabs(Shell)
  /\ Record("getTabs", NULL, "")
  /\ UNCHANGED << shellVars, options, issued, calls, net >>

\* what a caller writes into a field of a tab object it got from getTabs()
CallerValues == { "about:blank" }
\* an object that is not a tab, as an element the caller adds to its array
ForeignObject == 0

\* the caller adds an element to the array it holds
CallerPush ==
  /\ Len(held) < MaxCounter
  /\ held' = Append(held, ForeignObject)
  /\ Record("caller-push", NULL, "")
  /\ UNCHANGED << shellVars, options, issued, calls, net >>

\* the caller removes the last element of the array it holds
CallerPop ==
  /\ held # << >>
  /\ held' = SubSeq(held, 1, Len(held) - 1)
  /\ Record("caller-pop", NULL, "")
  /\ UNCHANGED << shellVars, options, issued, calls, net >>

\* the caller writes a field of the i-th object of the array it holds: the
\* object is the one this.tabs holds as long as the tab is open
CallerWrite(i, field, value) ==
  /\ i \in 1..Len(held)
  /\ field \in { "url", "title" }
  /\ Commit(setTabField(Shell, held[i], field, value), "caller-write", held[i], value,
            FALSE, FALSE)

\* the six names of headersToRemove, lines 38-45
HeadersToRemove ==
  { "x-frame-options", "X-Frame-Options",
    "content-security-policy", "Content-Security-Policy",
    "content-security-policy-report-only", "Content-Security-Policy-Report-Only" }
\* names a response can carry besides: other casings, and an unrelated one
OtherHeaderNames == { "X-FRAME-OPTIONS", "cache-control" }
HeaderValues == { "DENY", "no-store" }
\* details.responseHeaders: an object, so a function of the names it has
ResponseHeaders ==
  UNION { [ names -> HeaderValues ] : names \in SUBSET (HeadersToRemove \cup OtherHeaderNames) }

\* the listener deleting only the lower-case names
stripHeaders_lowerCaseOnly(headers) ==
  [ h \in DOMAIN headers \ { "x-frame-options", "content-security-policy",
                             "content-security-policy-report-only" } |-> headers[h] ]

\* the listener of lines 36-49: a copy of the response headers, the six names
\* deleted from it
stripHeaders(headers) ==
  [ h \in DOMAIN headers \ HeadersToRemove |-> headers[h] ]

\* WebMonitor.setupMain(), lines 34-51: registers the listener on the default
\* session; it is called once per process
SetupMain ==
  /\ ~net.registered
  /\ net' = [ net EXCEPT !.registered = TRUE ]
  /\ Record("setupMain", NULL, "")
  /\ UNCHANGED << shellVars, options, issued, calls, held >>

\* the session hands a response to the listener, which calls callback; the
\* listener keeps nothing, and is followed on one response
OnHeadersReceived(headers) ==
  /\ net.registered
  /\ net.calls = << >>
  /\ net' = [ net EXCEPT !.received = headers,
                         !.calls = Append(@, stripHeaders(headers)) ]
  /\ Record("headers-received", NULL, "")
  /\ UNCHANGED << shellVars, options, issued, calls, held >>

\* the state after the constructor, lines 9-29, when it is not given an observer
\* callback, so that each is null; InitObserved is the state after any
\* constructor call.  No response was intercepted yet.
Constructed ==
  /\ tabs = << >>
  /\ activeTabId = NULL
  /\ tabCounter = 0
  /\ initialized = FALSE
  /\ mounted = FALSE
  /\ listeners = 0
  /\ webviews = << >>
  /\ urlInput = ""
  /\ placeholder = ""
  /\ status = StatusReady
  /\ last = NoCall
  /\ issued = << >>
  /\ calls = [ newTab |-> 0, closeHit |-> 0 ]
  /\ held = << >>
  /\ net = [ registered |-> FALSE, received |-> << >>, calls |-> << >> ]

InitObserved ==
  /\ options \in [ containerFound : BOOLEAN, observers : BOOLEAN ]
  /\ Constructed

Init ==
  /\ options \in [ containerFound : BOOLEAN, observers : { FALSE } ]
  /\ Constructed

Next ==
  \/ \E startUrl \in TabUrls : InitShell(startUrl)
  \/ \E url \in TabUrls : NewTab(url)
  \/ \E id \in IdArgs : SwitchTab(id)
  \/ \E id \in IdArgs : CloseTab(id)
  \/ CtrlW
  \/ \E input \in NavInputs : Navigate(input)
  \/ GoBack
  \/ GoForward
  \/ Reload
  \/ \E w \in SurfaceIds, url \in EventUrls : DidNavigate(w, url)
  \/ ContainerAdded

Spec == Init /\ [][Next]_vars

\* the shell used as documented: the methods are called, and the inputs and events
\* arrive, once init() has returned
NextUse ==
  \/ \E startUrl \in TabUrls : InitShell(startUrl)
  \/ ContainerAdded
  \/ \E url \in TabUrls : initialized /\ NewTab(url)
  \/ \E id \in IdArgs : initialized /\ SwitchTab(id)
  \/ \E id \in IdArgs : initialized /\ CloseTab(id)
  \/ initialized /\ CtrlW
  \/ \E input \in NavInputs : initialized /\ Navigate(input)
  \/ \E w \in SurfaceIds, url \in EventUrls : initialized /\ DidNavigate(w, url)

SpecUse == Init /\ [][NextUse]_vars

\* a shell initialized without start URL, whose empty first tab is given one
\* address-bar text
NextResolve ==
  \/ InitShell("")
  \/ \E input \in AddressInputs :
       mounted /\ getCurrentUrl(Shell) = "" /\ Navigate(input)

SpecResolve == Init /\ [][NextResolve]_vars

\* the shell with the tab methods and the load and title events of its surfaces
NextEvents ==
  \/ \E startUrl \in TabUrls : InitShell(startUrl)
  \/ \E url \in TabUrls : NewTab(url)
  \/ \E id \in IdArgs : SwitchTab(id)
  \/ \E id \in IdArgs : CloseTab(id)
  \/ \E w \in SurfaceIds : DidStartLoading(w)
  \/ \E w \in SurfaceIds : DidStopLoading(w)
  \/ \E w \in SurfaceIds, code \in FailCodes : DidFailLoad(w, code)
  \/ \E w \in SurfaceIds, title \in EventTitles : TitleUpdated(w, title)

SpecEvents == Init /\ [][NextEvents]_vars

\* the shell, with or without observer callbacks, and the load events of its surfaces
NextLoad ==
  \/ \E startUrl \in TabUrls : InitShell(startUrl)
  \/ \E url \in TabUrls : NewTab(url)
  \/ \E id \in IdArgs : SwitchTab(id)
  \/ \E id \in IdArgs : CloseTab(id)
  \/ \E w \in SurfaceIds : DidStartLoading(w)
  \/ \E w \in SurfaceIds : DidStopLoading(w)
  \/ \E w \in SurfaceIds, code \in FailCodes : DidFailLoad(w, code)

SpecLoad == InitObserved /\ [][NextLoad]_vars

\* the number of tabs opened where every lifecycle event is followed
MaxLifecycleTabs == 2

\* the shell used as documented, and every lifecycle event of its surfaces,
\* those of closed tabs included
NextLifecycle ==
  \/ \E startUrl \in TabUrls : InitShell(startUrl)
  \/ \E url \in TabUrls : initialized /\ tabCounter < MaxLifecycleTabs /\ NewTab(url)
  \/ \E id \in IdArgs : initialized /\ SwitchTab(id)
  \/ \E id \in IdArgs : initialized /\ CloseTab(id)
  \/ \E w \in SurfaceIds : DidStartLoading(w)
  \/ \E w \in SurfaceIds : DidStopLoading(w)
  \/ \E w \in SurfaceIds, code \in FailCodes : DidFailLoad(w, code)
  \/ \E w \in SurfaceIds, title \in EventTitles : TitleUpdated(w, title)
  \/ \E w \in SurfaceIds, url \in EventUrls : DidNavigate(w, url)
  \/ \E w \in SurfaceIds : LateDidStartLoading(w)
  \/ \E w \in SurfaceIds : LateDidStopLoading(w)
  \/ \E w \in SurfaceIds, code \in FailCodes : LateDidFailLoad(w, code)
  \/ \E w \in SurfaceIds, title \in EventTitles : LateTitleUpdated(w, title)
  \/ \E w \in SurfaceIds, url \in EventUrls : LateDidNavigate(w, url)

SpecLifecycle == Init /\ [][NextLifecycle]_vars

\* the shell and a caller that keeps and changes what getTabs() returned
NextSnapshot ==
  \/ InitShell("")
  \/ NewTab("")
  \/ \E id \in IdArgs : CloseTab(id)
  \/ GetTabs
  \/ CallerPush
  \/ CallerPop
  \/ \E i \in 1..MaxCounter, field \in { "url", "title" }, value \in CallerValues :
       CallerWrite(i, field, value)

SpecSnapshot == Init /\ [][NextSnapshot]_vars

\* the main process: setupMain and the responses of the default session
NextHeaders ==
  \/ SetupMain
  \/ \E headers \in ResponseHeaders : OnHeadersReceived(headers)

SpecHeaders == Init /\ [][NextHeaders]_vars

(***************************************************************************)
(* Properties.                                                             *)
(***************************************************************************)
Range(q) == { q[i] : i \in 1..Len(q) }
\* position of id in a sequence of ids, 0 when it is not there
Position(q, id) == IF id \in Range(q) THEN CHOOSE i \in 1..Len(q) : q[i] = id ELSE 0
CloseOps == { "closeTab", "ctrlW" }
\* the placeholder is shown unless its display is "none" (the style sheet says flex)
PlaceholderVisible == placeholder # "none"

\* C1: the ids newTab hands out are strictly increasing, so none is handed out
\* twice, also after its tab was closed; the id newTab returns is the one it handed
\* out; the tabs of the collection have pairwise distinct ids.
C1_IdsIncreasingUnique ==
  /\ \A i, j \in 1..Len(issued) : i < j => issued[i] < issued[j]
  /\ \A i, j \in 1..Len(tabs) : i # j => tabs[i].id # tabs[j].id
  /\ TabIds(tabs) \subseteq Range(issued)
  /\ (last.op = "newTab" /\ last.err = "none") => last.ret = issued[Len(issued)]

\* a newTab that returned its id after an earlier tab had been closed
C1_Witness ==
  /\ last.op = "newTab"
  /\ last.err = "none"
  /\ calls.closeHit >= 1
  /\ Len(issued) >= 3
  /\ Len(tabs) >= 2

\* C2: on an initialized shell, whenever the collection is non-empty the active
\* id is the id of a tab of the collection.
C2_ActiveTabInCollection ==
  (initialized /\ Len(tabs) > 0) => activeTabId \in TabIds(tabs)

\* C3: after closeTab closed the active tab and tabs remain, the active tab is the
\* one at position min(closedIndex, count - 1) of the remaining collection (both
\* counted from 0): the right neighbour of the closed tab, or the new last tab.
C3_CloseActivePicksNeighbour ==
  LET at == Position(last.wasIds, last.id)
      closedIndex == at - 1
      count == Len(tabs)
  IN (last.op \in CloseOps /\ at # 0 /\ last.wasActive = last.id /\ Len(last.wasIds) > 1)
     => /\ activeTabId = tabs[Min(closedIndex, count - 1) + 1].id
        /\ at < Len(last.wasIds) => activeTabId = last.wasIds[at + 1]
        /\ at = Len(last.wasIds) => activeTabId = last.wasIds[at - 1]

\* the active middle tab of three was closed, and its right neighbour is active
C3_Witness ==
  /\ last.op = "closeTab"
  /\ Len(last.wasIds) = 3
  /\ last.id = last.wasIds[2]
  /\ last.wasActive = last.id
  /\ activeTabId = last.wasIds[3]

\* C4: after closeTab removed the only tab, whatever the active id was, the
\* collection is empty, the active id is null, the address bar is empty and the
\* placeholder is shown.
C4_CloseLastTabResets ==
  (last.op \in CloseOps /\ last.wasIds = << last.id >>)
  => /\ tabs = << >>
     /\ activeTabId = NULL
     /\ mounted => (urlInput = "" /\ placeholder = "flex" /\ PlaceholderVisible)

\* the only tab was closed while the active id named no tab
C4_Witness ==
  /\ last.op = "closeTab"
  /\ last.wasIds = << last.id >>
  /\ last.wasActive # last.id
  /\ mounted
  /\ tabs = << >>

\* C5: the length of the collection is the number of newTab calls minus the
\* number of closeTab calls that found their tab, and no call or event other than
\* those (and init and navigate, which call newTab) changes the length.
C5_LengthIsOpenedMinusClosed ==
  /\ Len(tabs) = calls.newTab - calls.closeHit
  /\ last.op \notin (CloseOps \cup { "newTab", "init", "navigate", "new" })
       => Len(tabs) = Len(last.wasIds)

\* tabs were opened and closed, and a call that is neither was handled since
C5_Witness ==
  /\ calls.newTab >= 3
  /\ calls.closeHit >= 2
  /\ Len(tabs) = 1
  /\ last.op \in { "switchTab", "goBack", "goForward", "reload", "did-navigate" }

\* C6: closeTab with an id that matches no tab throws nothing and changes neither
\* the collection, nor the active id, nor the surfaces, nor the address bar, nor
\* the placeholder.
C6_CloseUnknownIsNoOp ==
  [][ (last'.op = "closeTab" /\ last'.id \notin TabIds(tabs))
      => /\ last'.err = "none"
         /\ UNCHANGED << tabs, activeTabId, tabCounter, webviews, urlInput, placeholder >>
    ]_vars

\* closeTab was called with the id of no tab while tabs were open
C6_Witness ==
  /\ last.op = "closeTab"
  /\ last.id \notin Range(last.wasIds)
  /\ mounted
  /\ Len(tabs) >= 2
  /\ urlInput # ""

\* C7: switchTab with an id that matches no tab throws nothing and leaves the
\* address bar value and the placeholder visibility as they were.
C7_SwitchUnknownKeepsDisplay ==
  [][ (last'.op = "switchTab" /\ last'.id \notin TabIds(tabs))
      => /\ last'.err = "none"
         /\ urlInput' = urlInput
         /\ PlaceholderVisible' = PlaceholderVisible
    ]_vars

\* C8: after navigate with a non-empty text on an initialized shell, the tab count
\* grew by one if no tab was active and is unchanged otherwise, getCurrentUrl()
\* returns the resolved URL, the active surface's target is the resolved URL, and
\* the placeholder is hidden.
C8_NavigateSetsCurrentUrl ==
  \A input \in NavInputs \ { << >> } :
    (initialized /\ last.op = "navigate" /\ last.input = Join(input))
    => /\ getCurrentUrl(Shell) = Resolve(input)
       /\ activeTabId \in DOMAIN webviews
       /\ webviews[activeTabId].src = Resolve(input)
       /\ Len(tabs) = Len(last.wasIds)
                      + (IF last.wasActive \in Range(last.wasIds) THEN 0 ELSE 1)
       /\ placeholder = "none"

\* C9: navigate with an empty text changes nothing: no tab is created, no tab's url
\* and no surface's target changes, the active id and the placeholder stay.
C9_NavigateEmptyIsNoOp ==
  [][ (last'.op = "navigate" /\ last'.input = "")
      => /\ last'.err = "none"
         /\ UNCHANGED << tabs, activeTabId, tabCounter, webviews, urlInput, placeholder >>
    ]_vars

\* navigate was called with the empty text while no tab was active
C9_Witness ==
  /\ last.op = "navigate"
  /\ last.input = ""
  /\ initialized
  /\ activeTabId = NULL
  /\ tabs = << >>

\* what the text of a scheme, host, port and path must resolve to: a text that is
\* a domain with a TLD without port, or a local host with an optional port, each
\* with an optional http(s) scheme and an optional path, is an address, used as
\* it is if it has its scheme and behind https:// otherwise; any other text is
\* searched for, percent-encoded
IsAddress(sch, host, port, path) ==
  /\ sch.kind \in { "none", "http" }
  /\ path.kind \in { "none", "slash" }
  /\ \/ host.kind = "domain" /\ port.kind = "none"
     \/ host.kind = "local" /\ port.kind \in { "none", "digits" }
AddressText(sch, host, port, path) == sch.text \o host.text \o port.text \o path.text
ExpectedUrl(sch, host, port, path) ==
  IF IsAddress(sch, host, port, path)
  THEN (IF sch.kind = "http" THEN "" ELSE "https://") \o AddressText(sch, host, port, path)
  ELSE "https://www.google.com/search?q=" \o sch.enc \o host.enc \o port.enc \o path.enc

\* C10: the URL navigate resolves an address-bar text to is the reference for it:
\* an address with its scheme unchanged, an address without scheme behind
\* https://, any other text as the percent-encoded query of the search URL.
C10_ResolvedUrlIsReference ==
  /\ \A sch \in Schemes, host \in Hosts, port \in Ports, path \in Paths :
       /\ Join(AddressChars(sch, host, port, path)) = AddressText(sch, host, port, path)
       /\ (last.op = "navigate" /\ last.input = AddressText(sch, host, port, path))
          => getCurrentUrl(Shell) = ExpectedUrl(sch, host, port, path)
  /\ last.op = "navigate" =>
       /\ last.input = "openai.com" => getCurrentUrl(Shell) = "https://openai.com"
       /\ last.input = "localhost:3000" => getCurrentUrl(Shell) = "https://localhost:3000"
       /\ last.input = "hello world"
            => getCurrentUrl(Shell) = "https://www.google.com/search?q=hello%20world"

\* a local host with a port was navigated to as an address
C10_Witness ==
  /\ last.op = "navigate"
  /\ last.input = "localhost:3000"
  /\ getCurrentUrl(Shell) = "https://localhost:3000"


\* C11: an init() call on a shell already initialized changes nothing: no tab and
\* no surface is added, the markup is not rendered again, no input handler is
\* installed again, tabs and activeTabId stay as they are and nothing is thrown,
\* whatever was done since the first init().
C11_InitAgainIsNoOp ==
  [][ (last'.op = "init" /\ initialized)
        => (UNCHANGED shellVars /\ last'.err = "none") ]_vars

\* init() was called again after the tabs it and others had opened were closed
C11_Witness ==
  /\ last.op = "init"
  /\ initialized
  /\ listeners = 1
  /\ tabs = << >>
  /\ calls.closeHit >= 1

\* C12: init() on a shell whose container does not resolve throws the
\* container-not-found error and changes nothing: no tab, no surface, no input
\* handler, activeTabId as before, and the shell is not marked initialized;
\* init() on a shell not yet initialized whose container resolves is not
\* skipped: it initializes the shell.
C12_InitWithoutContainerThrows ==
  [][ (last'.op = "init" /\ ~initialized)
        => IF options.containerFound
           THEN initialized' /\ mounted' /\ last'.err = "none"
           ELSE /\ last'.err = "ContainerNotFound"
                /\ UNCHANGED shellVars
                /\ ~initialized' ]_vars

\* init() threw on a shell that has no container
C12_Witness ==
  /\ last.op = "init"
  /\ last.err = "ContainerNotFound"
  /\ ~options.containerFound
  /\ ~initialized /\ ~mounted /\ listeners = 0


\* what a caller does with the array getTabs() returned
CallerOps == { "caller-push", "caller-pop", "caller-write" }

\* C13: getTabs() returns a snapshot: whatever the caller of an initialized shell
\* does to the returned value (adding an element, removing one, writing the url
\* or the title of a returned tab record), the shell's collection and the fields
\* of its tabs stay as they are, so that getTabs() and getCurrentUrl() answer
\* afterwards what they answered before.
C13_GetTabsIsSnapshot ==
  [][ (last'.op \in CallerOps /\ initialized)
        => (tabs' = tabs /\ getTabs(Shell)' = getTabs(Shell)
                         /\ getCurrentUrl(Shell)' = getCurrentUrl(Shell)) ]_vars


C15_AbortedLoadIsNotAnError ==
  [][ last'.op = "did-fail-load"
        => IF last'.input = "aborted"
           THEN last'.cb = NoCallback /\ status' = status
           ELSE /\ status' = [ dot |-> "error", text |-> "Error: ERR_NAME_NOT_RESOLVED" ]
                /\ last'.cb = IF options.observers
                              THEN [ name |-> "onError", tab |-> last'.id ]
                              ELSE NoCallback ]_vars

\* a shell with callbacks whose surface started a load that was superseded
C15_Witness ==
  /\ last.op = "did-fail-load"
  /\ last.input = "aborted"
  /\ options.observers
  /\ status.dot = "loading"
  /\ last.cb = NoCallback


\* C16: for a response it intercepts, the listener setupMain registered calls the
\* continuation callback exactly once, with the headers of the response less
\* x-frame-options, content-security-policy and
\* content-security-policy-report-only, each in its lower-case and its
\* capitalized spelling: no header of these names is passed on, every header of
\* another name or another spelling is, and with the value it came with.
C16_StripsTheSixHeaders ==
  last.op = "headers-received"
    => /\ Len(net.calls) = 1
       /\ LET passed == net.calls[1]
          IN /\ DOMAIN passed =
                  DOMAIN net.received \
                    { "x-frame-options", "X-Frame-Options",
                      "content-security-policy", "Content-Security-Policy",
                      "content-security-policy-report-only",
                      "Content-Security-Policy-Report-Only" }
             /\ \A h \in DOMAIN passed : passed[h] = net.received[h]

\* a response that carries a documented name in both spellings, the same name in
\* upper case, and an unrelated header
C16_Witness ==
  /\ last.op = "headers-received"
  /\ { "x-frame-options", "X-Frame-Options", "Content-Security-Policy",
       "X-FRAME-OPTIONS", "cache-control" } \subseteq DOMAIN net.received
  /\ DOMAIN net.calls[1] = { "X-FRAME-OPTIONS", "cache-control" }


\* the load events of a surface
LoadEvents == { "did-start-loading", "did-stop-loading", "did-fail-load" }

\* C17: the status indicator mirrors the load state of the active surface only:
\* on an initialized shell whose active tab is open, a load-start, load-end or
\* load-failed event of the surface of another open tab leaves the status
\* indicator as it is.
C17_StatusMirrorsActiveSurface ==
  [][ ( /\ last'.op \in LoadEvents
        /\ initialized
        /\ activeTabId \in TabIds(tabs)
        /\ last'.id \in TabIds(tabs)
        /\ last'.id # activeTabId )
        => status' = status ]_vars


C19_DidNavigateOfBackgroundTab ==
  [][ last'.op = "did-navigate"
        => /\ last'.id \in TabIds(tabs)
           /\ UrlOf(tabs', last'.id) = last'.input
           /\ urlInput' = IF last'.id = activeTabId THEN last'.input ELSE urlInput ]_vars

\* the surface of a tab that is not the active one reported an address, and the
\* address bar shows another
C19_Witness ==
  /\ last.op = "did-navigate"
  /\ last.wasActive \in TabIds(tabs) \ { last.id }
  /\ UrlOf(tabs, last.id) = last.input
  /\ urlInput # last.input

\* C20: closeTab(id), for an open tab that is not the active one, removes that
\* tab and its surface and nothing else: activeTabId, the address bar, the
\* visibility of the placeholder, and the order and the fields of the other
\* tabs and their surfaces stay as they are.
C20_CloseBackgroundTabKeepsRest ==
  [][ ( /\ last'.op = "closeTab"
        /\ last'.id \in TabIds(tabs)
        /\ last'.id # activeTabId
        /\ Len(tabs) >= 2 )
        => /\ UNCHANGED << activeTabId, urlInput, placeholder >>
           /\ tabs' = SelectSeq(tabs, LAMBDA t : t.id # last'.id)
           /\ webviews' = [ w \in DOMAIN webviews \ { last'.id } |-> webviews[w] ] ]_vars

\* a tab other than the active one was closed while the active tab showed a page
C20_Witness ==
  /\ last.op = "closeTab"
  /\ initialized
  /\ last.id \in Range(last.wasIds)
  /\ last.wasActive \in TabIds(tabs) \ { last.id }
  /\ activeTabId = last.wasActive
  /\ urlInput # ""
  /\ placeholder = "none"


\* C21: in every state of an initialized shell, whatever newTab, closeTab,
\* switchTab and navigate calls and surface events came after init(), the
\* placeholder is visible exactly when the active id names no tab of the
\* collection or the active tab's url is empty.
C21_PlaceholderIffNothingShown ==
  initialized
    => (PlaceholderVisible
          <=> (activeTabId \notin TabIds(tabs) \/ UrlOf(tabs, activeTabId) = ""))


\* the events a surface reports to its listeners
LifecycleEvents == LoadEvents \cup { "page-title-updated", "did-navigate" }

\* C22: a lifecycle event (page-title-updated, did-navigate, did-start-loading,
\* did-stop-loading, did-fail-load) of the surface of tab T leaves activeTabId
\* as it is, leaves the collection with the same tabs in the same order, and
\* leaves url and title of every tab other than T as they are; an event handled
\* after T was closed does not put T back into the collection.
C22_EventsTouchOnlyTheirTab ==
  [][ last'.op \in LifecycleEvents
        => /\ activeTabId' = activeTabId
           /\ [ i \in 1..Len(tabs') |-> tabs'[i].id ] = [ i \in 1..Len(tabs) |-> tabs[i].id ]
           /\ \A i \in 1..Len(tabs) : tabs[i].id # last'.id => tabs'[i] = tabs[i] ]_vars

\* the surface of a closed tab reported a title or an address while other tabs
\* were open
C22_Witness ==
  /\ last.op \in { "page-title-updated", "did-navigate" }
  /\ last.id \in Range(issued)
  /\ last.id \notin TabIds(tabs)
  /\ tabs # << >>
  /\ activeTabId \in TabIds(tabs)

====
